---------------------------- MODULE Spec2Model ----------------------------
(***************************************************************************)
(* Model of the discussion engine of Multi-LLM-Discussion                  *)
(* (src/discussion.py, with the configuration of src/config.py, the        *)
(* persona registry of src/personas.py and the caller of src/main.py).     *)
(*                                                                         *)
(* A text is a sequence of tokens: a token is one character of a backend   *)
(* reply (whitespace included) or an atomic piece of fixed text (a display *)
(* name, a prompt, a literal of an f-string).  A float temperature t is    *)
(* the integer 10*t.  Python's None is the empty tuple <<>> and an int n   *)
(* the tuple <<n>>.                                                        *)
(***************************************************************************)
EXTENDS Integers, Sequences, FiniteSets, TLC

(***************************************************************************)
(* Bounds of the model.                                                    *)
(***************************************************************************)
\* largest explicit round count a caller passes (run_discussion, --rounds)
MaxRoundsArg == 2
\* number of generators run_discussion creates on one session
MaxRuns == 2
\* a generator may be created on a transcript of at most this length
MaxCarry == 1
\* the backend's reply varies over the first MaxVaried messages of a transcript
MaxVaried == 2

(***************************************************************************)
(* src/personas.py                                                         *)
(***************************************************************************)
RESPONSE_ORDER == <<"logical", "creative", "skeptical", "practical">>

RESPONSE_ORDER_WITH_SYNTH ==
  <<"logical", "creative", "skeptical", "practical", "synthesizer">>

PersonaKeys == {"logical", "creative", "skeptical", "practical", "synthesizer"}

PERSONAS ==
  [k \in PersonaKeys |->
     CASE k = "logical"     -> [name |-> "Logical Thinker",     emoji |-> "emoji_brain",
                                system_prompt |-> "prompt_logical"]
       [] k = "creative"    -> [name |-> "Creative Thinker",    emoji |-> "emoji_palette",
                                system_prompt |-> "prompt_creative"]
       [] k = "skeptical"   -> [name |-> "Skeptical Thinker",   emoji |-> "emoji_thinking",
                                system_prompt |-> "prompt_skeptical"]
       [] k = "practical"   -> [name |-> "Practical Thinker",   emoji |-> "emoji_wrench",
                                system_prompt |-> "prompt_practical"]
       [] k = "synthesizer" -> [name |-> "Neutral Synthesizer", emoji |-> "emoji_scales",
                                system_prompt |-> "prompt_synthesizer"]]

(***************************************************************************)
(* src/config.py                                                           *)
(***************************************************************************)
MAX_ROUNDS == 3

ENABLE_SYNTHESIZER == TRUE

\* config.PERSONA_TEMPERATURES, in tenths
PERSONA_TEMPERATURES ==
  [k \in PersonaKeys |->
     CASE k = "logical" -> 3 [] k = "creative" -> 8 [] k = "skeptical" -> 5
       [] k = "practical" -> 4 [] k = "synthesizer" -> 3]

\* a table with no entry for one persona
SparseTemperatures ==
  [k \in PersonaKeys \ {"creative"} |-> PERSONA_TEMPERATURES[k]]

\* the values of config.PERSONA_TEMPERATURES the model starts from
TemperatureTables == {PERSONA_TEMPERATURES, SparseTemperatures}

\* config.MIXED_ASSIGNMENTS, in the insertion order of the dict literal
MIXED_ASSIGNMENTS ==
  << [key |-> "logical",     provider |-> "ollama", model |-> "llama3.2"],
     [key |-> "skeptical",   provider |-> "ollama", model |-> "mistral"],
     [key |-> "synthesizer", provider |-> "ollama", model |-> "phi3"],
     [key |-> "creative",    provider |-> "groq",   model |-> "llama-3.3-70b-versatile"],
     [key |-> "practical",   provider |-> "groq",   model |-> "qwen/qwen3-32b"] >>

\* a table that declares a provider create_client does not know
MixedUnknownKind ==
  [i \in 1 .. Len(MIXED_ASSIGNMENTS) |->
     IF MIXED_ASSIGNMENTS[i].key = "creative"
       THEN [MIXED_ASSIGNMENTS[i] EXCEPT !.provider = "unknown-provider"]
       ELSE MIXED_ASSIGNMENTS[i]]

\* a table with no entry for one persona of the speaking order
MixedNoSkeptical ==
  LET Kept(a) == a.key # "skeptical" IN SelectSeq(MIXED_ASSIGNMENTS, Kept)

\* the values of config.MIXED_ASSIGNMENTS the model starts from
MixedTables == {MIXED_ASSIGNMENTS, MixedUnknownKind, MixedNoSkeptical}

\* config.MODELS.get(provider, "")
MODELS(provider) ==
  CASE provider = "ollama"      -> "llama3.2"
    [] provider = "groq"        -> "llama-3.1-8b-instant"
    [] provider = "google"      -> "gemini-1.5-flash"
    [] provider = "huggingface" -> "mistralai/Mistral-7B-Instruct-v0.3"
    [] OTHER                    -> ""

\* the values of config.LLM_PROVIDER the model starts from
Providers == {"mixed", "ollama", "unknown-provider"}

(***************************************************************************)
(* src/llm_clients.py                                                      *)
(***************************************************************************)
SupportedProviders == {"ollama", "groq", "google", "huggingface"}

\* the texts a backend's generate returns: the usual one and another one
UsualReply == <<" ", "a", "\n">>

AltReply == <<"b", " ", "c">>

Replies == {UsualReply, AltReply}

\* a reply that goes on, after a blank line, in the voice of another persona
QuotingReply ==
  <<"a", "\n", "\n", "[", "emoji_palette", " ", "Creative Thinker", "]", "\n",
    "b", " ", "c">>

TranscriptReplies == Replies \cup {QuotingReply}

(***************************************************************************)
(* Text helpers                                                            *)
(***************************************************************************)
Whitespace == {" ", "\n", "\t"}

RECURSIVE LStrip(_)
LStrip(s) == IF s # <<>> /\ Head(s) \in Whitespace THEN LStrip(Tail(s)) ELSE s

RECURSIVE RStrip(_)
RStrip(s) ==
  IF s # <<>> /\ s[Len(s)] \in Whitespace THEN RStrip(SubSeq(s, 1, Len(s) - 1)) ELSE s

\* str.strip()
Strip(s) == RStrip(LStrip(s))

\* the topic a caller hands to Discussion(user_input=...)
Topics == {<<"Should companies adopt a 4-day work week?">>}

\* what a user types as a topic, puts in a file or passes on the command line
RawTopics == Topics \cup {<<>>, <<" ", "\n">>}

NoneVal == <<>>

\* an exception: its class and the tokens of its message
Exc(type, args) == [type |-> type, args |-> args]

NoError == Exc("", <<>>)

\* the message of exception e carries token tok
Mentions(e, tok) == \E i \in 1 .. Len(e.args) : e.args[i] = tok

\* Python truthiness of an Optional[int]
Truthy(v) == v # NoneVal /\ v[1] # 0

\* the outcome of one client.generate call: the text it returns or the
\* exception it raises
Returned(text) == [raised |-> FALSE, text |-> text, exc |-> NoError]

Raised(e) == [raised |-> TRUE, text |-> <<>>, exc |-> e]

\* no post-processor has been called since the caller's last operation
NoPost ==
  [op |-> "none", client |-> <<>>, system_prompt |-> "", messages |-> <<>>,
   temperature |-> 0, calls |-> 0, reply |-> <<>>, result |-> <<>>,
   err |-> NoError]

VARIABLES
  cfgProvider,   \* config.LLM_PROVIDER
  cfgMixed,      \* config.MIXED_ASSIGNMENTS
  cfgTemps,      \* config.PERSONA_TEMPERATURES
  cfgSynth,      \* config.ENABLE_SYNTHESIZER
  cfgMaxRounds,  \* config.MAX_ROUNDS
  session,       \* "none", "live" (a Discussion exists), "config_error",
                 \* "rejected" (main has exited for want of a topic)
  user_input,    \* Discussion.user_input
  messages,      \* Discussion.messages
  clients,       \* Discussion.clients, as the sequence of its items
  nclients,      \* number of client instances create_client has returned
  runs,          \* number of generators created by run_discussion
  pc,            \* the generator: "idle", "created", "calling", "suspended",
                 \* "done", "failed", "closed"
  arg,           \* the rounds argument of the generator
  rounds,        \* local rounds of run_discussion (0 before the body starts)
  order,         \* local order of run_discussion
  round_num,     \* loop variable round_num
  idx,           \* position of persona_key in order
  produced,      \* the messages this generator has yielded
  calls,         \* backend generate calls this generator has made
  req,           \* the last request handed to a backend (<<>> when none)
  err,           \* the exception the caller has received (NoError when none)
  post           \* the call of generate_summary or generate_takeaway the caller
                 \* has just made: its request and its outcome (NoPost when none)

vars == << cfgProvider, cfgMixed, cfgTemps, cfgSynth, cfgMaxRounds, session, user_input, messages,
           clients, nclients, runs, pc, arg, rounds, order, round_num, idx,
           produced, calls, req, err, post >>

cfgVars == << cfgProvider, cfgMixed, cfgTemps, cfgSynth, cfgMaxRounds >>

sessVars == << session, user_input, clients, nclients >>

genVars == << pc, arg, rounds, order, round_num, idx, produced, calls, req, err >>

(***************************************************************************)
(* Initial state: the module globals of config.py as a user has set them,  *)
(* no Discussion object, no generator.                                     *)
(***************************************************************************)
InitConfig(temperatures) ==
  /\ cfgProvider \in Providers
  /\ cfgMixed \in (IF cfgProvider = "mixed" THEN MixedTables ELSE {MIXED_ASSIGNMENTS})
  /\ cfgTemps \in temperatures
  /\ cfgSynth = ENABLE_SYNTHESIZER
  /\ cfgMaxRounds = MAX_ROUNDS
  /\ session = "none"
  /\ user_input = <<>>
  /\ messages = <<>>
  /\ clients = <<>>
  /\ nclients = 0
  /\ runs = 0
  /\ pc = "idle"
  /\ arg = NoneVal
  /\ rounds = 0
  /\ order = <<>>
  /\ round_num = 0
  /\ idx = 0
  /\ produced = <<>>
  /\ calls = 0
  /\ req = <<>>
  /\ err = NoError
  /\ post = NoPost

\* config.py as it is shipped, but for the provider and its table
Init == InitConfig({PERSONA_TEMPERATURES})

\* config.py with PERSONA_TEMPERATURES edited as well
InitTemps == InitConfig(TemperatureTables)

(***************************************************************************)
(* main: the command line overrides of the configuration                   *)
(***************************************************************************)
\* the values --rounds can carry: its default is config.MAX_ROUNDS
RoundsArgs == (-1 .. MaxRoundsArg) \cup {MAX_ROUNDS}

MainOverride(argsRounds, argsNoSynth) ==
  /\ session = "none"
  /\ cfgMaxRounds' = IF argsRounds # 0 THEN argsRounds ELSE cfgMaxRounds
  /\ cfgSynth' = IF argsNoSynth THEN FALSE ELSE cfgSynth
  /\ post' = NoPost
  /\ UNCHANGED << cfgProvider, cfgMixed, cfgTemps, sessVars, messages, runs, genVars >>

\* a caller assigns config.ENABLE_SYNTHESIZER, a module global any code may
\* set whenever it has control
SetEnableSynthesizer(b) ==
  /\ pc # "calling"
  /\ cfgSynth # b
  /\ cfgSynth' = b
  /\ post' = NoPost
  /\ UNCHANGED << cfgProvider, cfgMixed, cfgTemps, cfgMaxRounds, sessVars,
                  messages, runs, genVars >>

(***************************************************************************)
(* Discussion.__post_init__ / _setup_clients                               *)
(***************************************************************************)
get_api_key(provider) ==
  CASE provider = "groq"        -> "GROQ_API_KEY"
    [] provider = "google"      -> "GOOGLE_API_KEY"
    [] provider = "huggingface" -> "HUGGINGFACE_API_KEY"
    [] OTHER                    -> ""

\* create_client raises ValueError for any other provider
create_client_ok(provider) == provider \in SupportedProviders

\* variant: the message of the ValueError does not say which provider
UnknownProviderError_Unnamed(provider) ==
  Exc("ValueError", << "Unknown provider. Use: ollama, groq, google, huggingface" >>)

\* the ValueError of llm_clients.py:179
UnknownProviderError(provider) ==
  Exc("ValueError",
      << "Unknown provider: ", provider, ". Use: ollama, groq, google, huggingface" >>)

create_client(id, provider, api_key, model) ==
  CASE provider = "ollama" ->
         [id |-> id, kind |-> "OllamaClient", api_key |-> "",
          model |-> IF model # "" THEN model ELSE "llama3.2"]
    [] provider = "groq" ->
         [id |-> id, kind |-> "GroqClient", api_key |-> api_key,
          model |-> IF model # "" THEN model ELSE "llama-3.1-8b-instant"]
    [] provider = "google" ->
         [id |-> id, kind |-> "GoogleClient", api_key |-> api_key,
          model |-> IF model # "" THEN model ELSE "gemini-1.5-flash"]
    [] provider = "huggingface" ->
         [id |-> id, kind |-> "HuggingFaceClient", api_key |-> api_key,
          model |-> IF model # "" THEN model ELSE "mistralai/Mistral-7B-Instruct-v0.3"]

\* the order the bindings of the uniform policy are made in (discussion.py:53)
ActiveOrder(synth) == IF synth THEN RESPONSE_ORDER_WITH_SYNTH ELSE RESPONSE_ORDER

\* the providers _setup_clients hands to create_client, in call order
SetupProviders(provider, table) ==
  IF provider = "mixed"
    THEN [i \in 1 .. Len(table) |-> table[i].provider]
    ELSE << provider >>

\* the first provider of ps that create_client refuses, and its position
FirstUnsupportedAt(ps) ==
  CHOOSE i \in 1 .. Len(ps) :
    /\ ~create_client_ok(ps[i])
    /\ \A j \in 1 .. i - 1 : create_client_ok(ps[j])

FirstUnsupported(ps) == ps[FirstUnsupportedAt(ps)]

\* variant: the uniform policy creates a client for each persona
setup_clients_PerPersona(provider, table, synth) ==
  IF provider = "mixed"
    THEN [i \in 1 .. Len(table) |->
            [key    |-> table[i].key,
             client |-> create_client(i, table[i].provider,
                                      get_api_key(table[i].provider),
                                      table[i].model)]]
    ELSE [i \in 1 .. Len(ActiveOrder(synth)) |->
            [key    |-> ActiveOrder(synth)[i],
             client |-> create_client(i, provider, get_api_key(provider),
                                      MODELS(provider))]]

\* Discussion.clients after _setup_clients returns
setup_clients(provider, table, synth) ==
  IF provider = "mixed"
    THEN [i \in 1 .. Len(table) |->
            [key    |-> table[i].key,
             client |-> create_client(i, table[i].provider,
                                      get_api_key(table[i].provider),
                                      table[i].model)]]
    ELSE [i \in 1 .. Len(ActiveOrder(synth)) |->
            [key    |-> ActiveOrder(synth)[i],
             client |-> create_client(1, provider, get_api_key(provider),
                                      MODELS(provider))]]

Construct(topic) ==
  /\ session = "none"
  /\ IF \A i \in 1 .. Len(SetupProviders(cfgProvider, cfgMixed)) :
          create_client_ok(SetupProviders(cfgProvider, cfgMixed)[i])
       THEN /\ session' = "live"
            /\ user_input' = topic
            /\ clients' = setup_clients(cfgProvider, cfgMixed, cfgSynth)
            /\ nclients' = Len(SetupProviders(cfgProvider, cfgMixed))
            /\ err' = NoError
       ELSE \* create_client raises: no Discussion object comes to exist
            /\ session' = "config_error"
            /\ err' = UnknownProviderError(
                        FirstUnsupported(SetupProviders(cfgProvider, cfgMixed)))
            /\ nclients' = FirstUnsupportedAt(SetupProviders(cfgProvider, cfgMixed)) - 1
            /\ UNCHANGED << user_input, clients >>
  /\ messages' = <<>>
  /\ post' = NoPost
  /\ UNCHANGED << cfgVars, runs, pc, arg, rounds, order, round_num, idx,
                  produced, calls, req >>

(***************************************************************************)
(* main: the topic (main.py:209-224)                                       *)
(***************************************************************************)
InputPaths == {"file", "positional", "interactive"}

\* user_input of main: raw is the content of --file or the positional
\* argument, typed what get_user_input reads
MainTopic(path, raw, typed) ==
  CASE path = "file"        -> Strip(raw)
    [] path = "positional"  -> IF raw # <<>> THEN raw ELSE Strip(typed)
    [] path = "interactive" -> Strip(typed)

\* main from the reading of the topic to Discussion(user_input=user_input)
MainInput(path, raw, typed) ==
  IF MainTopic(path, raw, typed) = <<>>
    THEN \* "No topic provided", sys.exit(1)
         /\ session = "none"
         /\ session' = "rejected"
         /\ err' = Exc("SystemExit", << "1" >>)
         /\ post' = NoPost
         /\ UNCHANGED << cfgVars, user_input, clients, nclients, messages, runs,
                         pc, arg, rounds, order, round_num, idx, produced, calls,
                         req >>
    ELSE Construct(MainTopic(path, raw, typed))

\* self.clients[persona_key]: the binding of key, <<>> when there is none
HasClient(cl, key) == \E i \in 1 .. Len(cl) : cl[i].key = key

ClientOf(cl, key) == cl[CHOOSE i \in 1 .. Len(cl) : cl[i].key = key].client

\* variant: the speaker's own messages are left out of its context
build_chat_history_OthersOnly(topic, msgs, for_persona) ==
  LET NotOwn(m) == m.persona_key # for_persona
      others == SelectSeq(msgs, NotOwn)
  IN << [role |-> "user", content |-> <<"[User] ">> \o topic] >>
     \o [i \in 1 .. Len(others) |->
           [role    |-> "user",
            content |-> <<"[", others[i].persona_name, "] ">> \o others[i].content]]
     \o << [role    |-> "user",
            content |-> << "Now respond naturally as yourself (",
                           PERSONAS[for_persona].name,
                           ") to this ongoing discussion. Keep it conversational and chat-like." >>] >>

\* variant: the role is decided by the display name instead of the key
build_chat_history_ByName(topic, msgs, for_persona) ==
  << [role |-> "user", content |-> <<"[User] ">> \o topic] >>
  \o [i \in 1 .. Len(msgs) |->
        [role    |-> IF msgs[i].persona_name = for_persona THEN "assistant" ELSE "user",
         content |-> <<"[", msgs[i].persona_name, "] ">> \o msgs[i].content]]
  \o << [role    |-> "user",
         content |-> << "Now respond naturally as yourself (",
                        PERSONAS[for_persona].name,
                        ") to this ongoing discussion. Keep it conversational and chat-like." >>] >>

(***************************************************************************)
(* Discussion._build_chat_history                                          *)
(***************************************************************************)
build_chat_history(topic, msgs, for_persona) ==
  << [role |-> "user", content |-> <<"[User] ">> \o topic] >>
  \o [i \in 1 .. Len(msgs) |->
        [role    |-> IF msgs[i].persona_key = for_persona THEN "assistant" ELSE "user",
         content |-> <<"[", msgs[i].persona_name, "] ">> \o msgs[i].content]]
  \o << [role    |-> "user",
         content |-> << "Now respond naturally as yourself (",
                        PERSONAS[for_persona].name,
                        ") to this ongoing discussion. Keep it conversational and chat-like." >>] >>

(***************************************************************************)
(* Discussion._generate_response                                           *)
(***************************************************************************)
\* variant: without an entry the call falls back on generate's own default
TemperatureOf_BackendDefault(persona_key) ==
  IF persona_key \in DOMAIN cfgTemps THEN cfgTemps[persona_key] ELSE 7

\* config.PERSONA_TEMPERATURES.get(persona_key, 0.5)
TemperatureOf(persona_key) ==
  IF persona_key \in DOMAIN cfgTemps THEN cfgTemps[persona_key] ELSE 5

\* variant: the context is built from the messages of the current run only
GenerateRequest_OwnRun(cl, topic, msgs, persona_key) ==
  [client        |-> ClientOf(cl, persona_key),
   system_prompt |-> PERSONAS[persona_key].system_prompt,
   messages      |-> build_chat_history(topic, produced, persona_key),
   temperature   |-> TemperatureOf(persona_key)]

\* the arguments of client.generate (discussion.py:101-105) and its receiver
GenerateRequest(cl, topic, msgs, persona_key) ==
  [client        |-> ClientOf(cl, persona_key),
   system_prompt |-> PERSONAS[persona_key].system_prompt,
   messages      |-> build_chat_history(topic, msgs, persona_key),
   temperature   |-> TemperatureOf(persona_key)]

\* variant: the message is tagged with the first round whatever the round
MakeMessage_FirstRound(persona_key, r, content) ==
  [persona_key  |-> persona_key,
   persona_name |-> PERSONAS[persona_key].name,
   emoji        |-> PERSONAS[persona_key].emoji,
   content      |-> Strip(content),
   round_num    |-> 1]

\* the Message built from the backend's text (discussion.py:107-113)
MakeMessage(persona_key, r, content) ==
  [persona_key  |-> persona_key,
   persona_name |-> PERSONAS[persona_key].name,
   emoji        |-> PERSONAS[persona_key].emoji,
   content      |-> Strip(content),
   round_num    |-> r]

(***************************************************************************)
(* Discussion.run_discussion: a generator.  Its body starts at the first   *)
(* next(); each next() runs it up to the backend call of the next turn,    *)
(* and the backend's answer or failure takes it on to the yield or out.    *)
(***************************************************************************)
\* variant: only None falls back on the configuration, 0 is taken as given
ResolveRounds_NotNone(a, maxRounds) == IF a # NoneVal THEN a[1] ELSE maxRounds

\* rounds = rounds or config.MAX_ROUNDS
ResolveRounds(a, maxRounds) == IF Truthy(a) THEN a[1] ELSE maxRounds

\* variants of the test, as a slip in its conditions would leave it
Skipped_EveryEarlyRound(persona_key, r, R) ==
  persona_key = "synthesizer" /\ r < R

Skipped_Never(persona_key, r, R) == FALSE

Skipped_FirstRound(persona_key, r, R) ==
  persona_key = "synthesizer" /\ r = 1

\* variant: the test forgets to look at the speaker
Skipped_AnyPersona(persona_key, r, R) == r < R /\ r = 1

\* the test of discussion.py:123-125: this speaker is passed over
Skipped(persona_key, r, R) ==
  persona_key = "synthesizer" /\ r < R /\ r = 1

NoTurn == [r |-> 0, i |-> 0]

\* the loops of discussion.py:120-125 from position (r, i) on: the first
\* position whose speaker takes a turn, NoTurn when the loops run out
RECURSIVE NextTurn(_, _, _, _)
NextTurn(r, i, R, ord) ==
  IF r > R THEN NoTurn
  ELSE IF i > Len(ord) THEN NextTurn(r + 1, 1, R, ord)
  ELSE IF Skipped(ord[i], r, R) THEN NextTurn(r, i + 1, R, ord)
  ELSE [r |-> r, i |-> i]

\* the sets the arguments of run_discussion are drawn from
RunArgs == {NoneVal} \cup {<< n >> : n \in -1 .. MaxRoundsArg}

\* variant: a new run starts from an empty transcript
StartRun_FreshTranscript(a) ==
  /\ session = "live"
  /\ pc \in {"idle", "done", "failed", "closed"}
  /\ runs < MaxRuns
  /\ Len(messages) <= MaxCarry
  /\ runs' = runs + 1
  /\ pc' = "created"
  /\ arg' = a
  /\ rounds' = 0
  /\ order' = <<>>
  /\ round_num' = 0
  /\ idx' = 0
  /\ produced' = <<>>
  /\ calls' = 0
  /\ req' = <<>>
  /\ err' = NoError
  /\ messages' = <<>>
  /\ post' = NoPost
  /\ UNCHANGED << cfgVars, sessVars >>

\* discussion.run_discussion(rounds): creates the generator, runs nothing
StartRun(a) ==
  /\ session = "live"
  /\ pc \in {"idle", "done", "failed", "closed"}
  /\ runs < MaxRuns
  /\ Len(messages) <= MaxCarry
  /\ runs' = runs + 1
  /\ pc' = "created"
  /\ arg' = a
  /\ rounds' = 0
  /\ order' = <<>>
  /\ round_num' = 0
  /\ idx' = 0
  /\ produced' = <<>>
  /\ calls' = 0
  /\ req' = <<>>
  /\ err' = NoError
  /\ post' = NoPost
  /\ UNCHANGED << cfgVars, sessVars, messages >>

\* variant: the calls of the speaker and of the next one are issued together
Advance_FanOut(R, ord, r, i) ==
  LET t == NextTurn(r, i, R, ord) IN
  /\ rounds' = R
  /\ order' = ord
  /\ IF t = NoTurn
       THEN /\ pc' = "done"
            /\ UNCHANGED << round_num, idx, calls, req, err >>
       ELSE /\ round_num' = t.r
            /\ idx' = t.i
            /\ IF HasClient(clients, ord[t.i])
                 THEN /\ pc' = "calling"
                      /\ calls' = calls + 2
                      /\ req' = GenerateRequest(clients, user_input, messages, ord[t.i])
                      /\ err' = NoError
                 ELSE /\ pc' = "failed"
                      /\ err' = Exc("KeyError", << ord[t.i] >>)
                      /\ UNCHANGED << calls, req >>
  /\ post' = NoPost
  /\ UNCHANGED << cfgVars, sessVars, messages, runs, arg, produced >>

\* the generator runs from position (r, i) to its next backend call
Advance(R, ord, r, i) ==
  LET t == NextTurn(r, i, R, ord) IN
  /\ rounds' = R
  /\ order' = ord
  /\ IF t = NoTurn
       THEN \* the loops are over: StopIteration
            /\ pc' = "done"
            /\ UNCHANGED << round_num, idx, calls, req, err >>
       ELSE /\ round_num' = t.r
            /\ idx' = t.i
            /\ IF HasClient(clients, ord[t.i])
                 THEN /\ pc' = "calling"
                      /\ calls' = calls + 1
                      /\ req' = GenerateRequest(clients, user_input, messages, ord[t.i])
                      /\ err' = NoError
                 ELSE \* self.clients[persona_key] raises KeyError
                      /\ pc' = "failed"
                      /\ err' = Exc("KeyError", << ord[t.i] >>)
                      /\ UNCHANGED << calls, req >>
  /\ post' = NoPost
  /\ UNCHANGED << cfgVars, sessVars, messages, runs, arg, produced >>

\* the first next(): the body starts, reads the configuration, enters the loops
FirstNext ==
  /\ pc = "created"
  /\ Advance(ResolveRounds(arg, cfgMaxRounds), ActiveOrder(cfgSynth), 1, 1)

\* variant: the loop resumes at the speaker that has just spoken
Resume_SameSpeaker ==
  /\ pc = "suspended"
  /\ Advance(rounds, order, round_num, idx)

\* a later next(): the body resumes after the yield
Resume ==
  /\ pc = "suspended"
  /\ Advance(rounds, order, round_num, idx + 1)

\* variant: the message is yielded before it is appended to the transcript
BackendReturn_YieldBeforeAppend(text) ==
  /\ pc = "calling"
  /\ text # UsualReply => Len(messages) < MaxVaried
  /\ produced' = Append(produced, MakeMessage(order[idx], round_num, text))
  /\ pc' = "suspended"
  /\ post' = NoPost
  /\ UNCHANGED << cfgVars, sessVars, messages, runs, arg, rounds, order,
                  round_num, idx, calls, req, err >>

\* client.generate returns text: the message is built, appended and yielded
BackendReturn(text) ==
  /\ pc = "calling"
  /\ text # UsualReply => Len(messages) < MaxVaried
  /\ LET message == MakeMessage(order[idx], round_num, text) IN
       /\ messages' = Append(messages, message)
       /\ produced' = Append(produced, message)
  /\ pc' = "suspended"
  /\ post' = NoPost
  /\ UNCHANGED << cfgVars, sessVars, runs, arg, rounds, order, round_num, idx,
                  calls, req, err >>

\* the exceptions a backend call ends with
BackendErrors ==
  { Exc("ConnectionError",
        << "Cannot connect to Ollama at ", "http://localhost:11434",
           "\nMake sure Ollama is running: https://ollama.com/download" >>) }

\* variant: the failure is swallowed and the loop goes on to the next speaker
BackendFail_SkipSpeaker(e) ==
  /\ pc = "calling"
  /\ pc' = "suspended"
  /\ err' = e
  /\ post' = NoPost
  /\ UNCHANGED << cfgVars, sessVars, messages, runs, arg, rounds, order,
                  round_num, idx, produced, calls, req >>

\* variant: the failure is wrapped in an exception naming speaker and round
BackendFail_Wrapped(e) ==
  /\ pc = "calling"
  /\ pc' = "failed"
  /\ err' = Exc("GenerationFailure", << order[idx], ToString(round_num) >> \o e.args)
  /\ post' = NoPost
  /\ UNCHANGED << cfgVars, sessVars, messages, runs, arg, rounds, order,
                  round_num, idx, produced, calls, req >>

\* client.generate raises: the exception leaves the generator, which is over
BackendFail(e) ==
  /\ pc = "calling"
  /\ pc' = "failed"
  /\ err' = e
  /\ post' = NoPost
  /\ UNCHANGED << cfgVars, sessVars, messages, runs, arg, rounds, order,
                  round_num, idx, produced, calls, req >>

\* variant: an interrupt discards the messages of the unfinished round
Interrupt_DropRound ==
  LET Earlier(m) == m.round_num # round_num IN
  /\ pc \in {"created", "calling", "suspended"}
  /\ pc' = "closed"
  /\ err' = Exc("KeyboardInterrupt", <<>>)
  /\ messages' = SelectSeq(messages, Earlier)
  /\ post' = NoPost
  /\ UNCHANGED << cfgVars, sessVars, runs, arg, rounds, order,
                  round_num, idx, produced, calls, req >>

\* KeyboardInterrupt in the caller, or the caller drops the generator
Interrupt ==
  /\ pc \in {"created", "calling", "suspended"}
  /\ pc' = "closed"
  /\ err' = Exc("KeyboardInterrupt", <<>>)
  /\ post' = NoPost
  /\ UNCHANGED << cfgVars, sessVars, messages, runs, arg, rounds, order,
                  round_num, idx, produced, calls, req >>

(***************************************************************************)
(* Discussion.get_transcript, generate_summary, generate_takeaway          *)
(***************************************************************************)
RECURSIVE Join(_, _)
\* sep.join(lines)
Join(lines, sep) ==
  IF lines = <<>> THEN <<>>
  ELSE IF Len(lines) = 1 THEN lines[1]
  ELSE lines[1] \o sep \o Join(Tail(lines), sep)

get_transcript(topic, msgs) ==
  Join(<< <<"[User]", "\n">> \o topic \o <<"\n">> >>
       \o [i \in 1 .. Len(msgs) |->
             <<"[", msgs[i].emoji, " ", msgs[i].persona_name, "]", "\n">>
             \o msgs[i].content \o <<"\n">>],
       <<"\n">>)

\* variant: the backend of the last entry of the mapping
PostClient_Last(cl) == cl[Len(cl)].client

\* list(discussion.clients.values())[0]
PostClient(cl) == cl[1].client

\* the closing sentence of the request of each post-processor
PostAsk(op) ==
  CASE op = "summary"  -> "Please summarize this discussion."
    [] op = "takeaway" -> "Provide a final balanced takeaway."

\* the system prompt of each post-processor
PostPrompt(op) ==
  CASE op = "summary"  -> "summary_prompt"
    [] op = "takeaway" -> "takeaway_prompt"

\* variant: a failed call is made a second time before the failure is passed on
PostCall_Retry(op, cl, topic, msgs, out) ==
  [op            |-> op,
   client        |-> PostClient(cl),
   system_prompt |-> PostPrompt(op),
   messages      |-> << [role    |-> "user",
                         content |-> <<"Discussion transcript:", "\n", "\n">>
                                     \o get_transcript(topic, msgs)
                                     \o <<"\n", "\n", PostAsk(op)>>] >>,
   temperature   |-> 3,
   calls         |-> IF out.raised THEN 2 ELSE 1,
   reply         |-> out.text,
   result        |-> out.text,
   err           |-> out.exc]

\* the call of client.generate by a post-processor and what the
\* post-processor hands back to its caller
PostCall(op, cl, topic, msgs, out) ==
  [op            |-> op,
   client        |-> PostClient(cl),
   system_prompt |-> PostPrompt(op),
   messages      |-> << [role    |-> "user",
                         content |-> <<"Discussion transcript:", "\n", "\n">>
                                     \o get_transcript(topic, msgs)
                                     \o <<"\n", "\n", PostAsk(op)>>] >>,
   temperature   |-> 3,
   calls         |-> 1,
   reply         |-> out.text,
   result        |-> out.text,
   err           |-> out.exc]

\* what the backend does with the call of a post-processor
PostOutcomes == {Returned(UsualReply)} \cup {Raised(e) : e \in BackendErrors}

\* variant: the summary the backend returns is kept as a message of the transcript
generate_summary_Recorded(out) ==
  /\ session = "live"
  /\ pc # "calling"
  /\ post' = PostCall("summary", clients, user_input, messages, out)
  /\ messages' = IF out.raised THEN messages
                 ELSE Append(messages, MakeMessage("synthesizer", 0, out.text))
  /\ UNCHANGED << cfgVars, sessVars, runs, genVars >>

generate_summary(out) ==
  /\ session = "live"
  /\ pc # "calling"
  /\ post' = PostCall("summary", clients, user_input, messages, out)
  /\ UNCHANGED << cfgVars, sessVars, messages, runs, genVars >>

generate_takeaway(out) ==
  /\ session = "live"
  /\ pc # "calling"
  /\ post' = PostCall("takeaway", clients, user_input, messages, out)
  /\ UNCHANGED << cfgVars, sessVars, messages, runs, genVars >>

Next ==
  \/ \E r \in RoundsArgs, n \in BOOLEAN : MainOverride(r, n)
  \/ \E t \in Topics : Construct(t)
  \/ \E path \in InputPaths, raw \in RawTopics, typed \in RawTopics :
       MainInput(path, raw, typed)
  \/ \E a \in RunArgs : StartRun(a)
  \/ FirstNext
  \/ Resume
  \/ \E text \in Replies : BackendReturn(text)
  \/ \E e \in BackendErrors : BackendFail(e)
  \/ Interrupt

Spec == Init /\ [][Next]_vars

\* a session built directly from the module globals, with the post-processors
\* called at any moment the caller has control
NextPost ==
  \/ \E t \in Topics : Construct(t)
  \/ \E a \in RunArgs : StartRun(a)
  \/ FirstNext
  \/ Resume
  \/ \E text \in Replies : BackendReturn(text)
  \/ \E e \in BackendErrors : BackendFail(e)
  \/ Interrupt
  \/ \E out \in PostOutcomes : generate_summary(out)
  \/ \E out \in PostOutcomes : generate_takeaway(out)

SpecPost == Init /\ [][NextPost]_vars

\* a session built directly from the module globals, with
\* config.ENABLE_SYNTHESIZER assigned at any moment the caller has control
NextFlag ==
  \/ \E b \in BOOLEAN : SetEnableSynthesizer(b)
  \/ \E t \in Topics : Construct(t)
  \/ \E a \in RunArgs : StartRun(a)
  \/ FirstNext
  \/ Resume
  \/ \E text \in Replies : BackendReturn(text)
  \/ \E e \in BackendErrors : BackendFail(e)
  \/ Interrupt

SpecFlag == Init /\ [][NextFlag]_vars

\* the same sessions over every temperature table
SpecTemps == InitTemps /\ [][NextFlag]_vars

\* a session built directly from the module globals, over backends that also
\* reply in the layout of the transcript
NextText ==
  \/ \E t \in Topics : Construct(t)
  \/ \E a \in RunArgs : StartRun(a)
  \/ FirstNext
  \/ Resume
  \/ \E text \in TranscriptReplies : BackendReturn(text)
  \/ \E e \in BackendErrors : BackendFail(e)
  \/ Interrupt

SpecText == Init /\ [][NextText]_vars

\* the runs in which every backend call returns, nobody interrupts and the
\* caller keeps advancing the generator
NextLive ==
  \/ \E r \in RoundsArgs, n \in BOOLEAN : MainOverride(r, n)
  \/ \E t \in Topics : Construct(t)
  \/ \E path \in InputPaths, raw \in RawTopics, typed \in RawTopics :
       MainInput(path, raw, typed)
  \/ \E a \in RunArgs : StartRun(a)
  \/ FirstNext
  \/ Resume
  \/ \E text \in Replies : BackendReturn(text)

SpecLive ==
  /\ Init
  /\ [][NextLive]_vars
  /\ WF_vars(FirstNext)
  /\ WF_vars(Resume)
  /\ WF_vars(\E text \in Replies : BackendReturn(text))

(***************************************************************************)
(* Properties of a run                                                     *)
(***************************************************************************)
WithSynth == order = RESPONSE_ORDER_WITH_SYNTH

SynthIn(msgs, r) ==
  \E i \in 1 .. Len(msgs) :
    msgs[i].persona_key = "synthesizer" /\ msgs[i].round_num = r

KeysOf(msgs) == [i \in 1 .. Len(msgs) |-> msgs[i].persona_key]

C2_Original ==
  (rounds >= 1 /\ WithSynth) => ~SynthIn(produced, 1)

\* C2 as amended: with the synthesizer enabled and R >= 2, no message of
\* round 1 is the synthesizer's.
C2_NoSynthInFirstOfSeveralRounds ==
  (rounds >= 2 /\ WithSynth) => ~SynthIn(produced, 1)

C2_Witness ==
  /\ rounds >= 2
  /\ WithSynth
  /\ pc = "suspended"
  /\ round_num = 2
  /\ produced[Len(produced)].persona_key = "synthesizer"

\* C3 as stated: R = 1 with the synthesizer enabled completes with exactly
\* the four thinkers' messages, all of round 1, in speaking order.
C3_Original ==
  (pc = "done" /\ rounds = 1 /\ WithSynth) =>
    /\ KeysOf(produced) = RESPONSE_ORDER
    /\ \A i \in 1 .. Len(produced) : produced[i].round_num = 1

\* C3 as amended: R = 1 with the synthesizer enabled completes with exactly
\* five messages, all of round 1, from logical, creative, skeptical,
\* practical, synthesizer in that order.
C3_SingleRoundRun ==
  (pc = "done" /\ rounds = 1 /\ WithSynth) =>
    /\ Len(produced) = 5
    /\ KeysOf(produced) =
         <<"logical", "creative", "skeptical", "practical", "synthesizer">>
    /\ \A i \in 1 .. Len(produced) : produced[i].round_num = 1

C3_Witness ==
  /\ pc = "done"
  /\ rounds = 1
  /\ WithSynth
  /\ Len(produced) = 5

\* C4: the round numbers of the messages a run has produced never decrease,
\* and the message just emitted carries the round the loop is processing.
C4_RoundNumbers ==
  /\ \A i, j \in 1 .. Len(produced) :
       i <= j => produced[i].round_num <= produced[j].round_num
  /\ pc = "suspended" =>
       /\ produced # <<>>
       /\ produced[Len(produced)].round_num = round_num
       /\ round_num \in 1 .. rounds

C4_Witness ==
  /\ pc = "suspended"
  /\ round_num = 2
  /\ produced[1].round_num = 1
  /\ produced[Len(produced)].round_num = 2

IsPrefix(s, t) == Len(s) <= Len(t) /\ SubSeq(t, 1, Len(s)) = s

IsSuffix(s, t) ==
  Len(s) <= Len(t) /\ SubSeq(t, Len(t) - Len(s) + 1, Len(t)) = s

\* C5: every step leaves the transcript as it is or adds exactly one message
\* at its end; no message in it is removed, moved or changed.
C5_AppendOnly ==
  [][ \/ messages' = messages
      \/ /\ Len(messages') = Len(messages) + 1
         /\ IsPrefix(messages, messages') ]_vars

C5_Witness ==
  /\ runs = 2
  /\ pc = "suspended"
  /\ Len(messages) = 2
  /\ Len(produced) = 1

\* position of a persona in the canonical speaking order
OrderPos(persona_key) ==
  CHOOSE i \in 1 .. Len(RESPONSE_ORDER_WITH_SYNTH) :
    RESPONSE_ORDER_WITH_SYNTH[i] = persona_key

\* C6: within a round of a run the messages follow the canonical speaking
\* order, and no persona has two messages in one round.
C6_SpeakingOrder ==
  \A i, j \in 1 .. Len(produced) :
    (i < j /\ produced[i].round_num = produced[j].round_num) =>
      OrderPos(produced[i].persona_key) < OrderPos(produced[j].persona_key)

C6_Witness ==
  /\ Len(produced) >= 8
  /\ produced[5].round_num = 2
  /\ produced[8].round_num = 2

(***************************************************************************)
(* Properties of the context handed to a backend                           *)
(***************************************************************************)
\* entry e of a context stands for message m: it is tagged with m's display
\* name and carries m's content
EntryOf(e, m) ==
  /\ Len(e.content) = 3 + Len(m.content)
  /\ e.content[2] = m.persona_name
  /\ SubSeq(e.content, 4, Len(e.content)) = m.content

\* h is the context of speaker S over transcript msgs: the topic first, one
\* entry per message in transcript order, the instruction naming S last
ContextShape(h, topic, msgs, S) ==
  /\ Len(h) = Len(msgs) + 2
  /\ h[1].content = <<"[User] ">> \o topic
  /\ Len(h[Len(h)].content) = 3
  /\ h[Len(h)].content[1] = "Now respond naturally as yourself ("
  /\ h[Len(h)].content[2] = PERSONAS[S].name
  /\ \A i \in 1 .. Len(msgs) : EntryOf(h[i + 1], msgs[i])

\* C7: for every speaker S and reachable transcript, the context of S has
\* len(transcript) + 2 entries: the topic entry, one entry per message of
\* the transcript in transcript order, the instruction entry naming S; and
\* so has the context of every backend call of a turn.
C7_ContextShape ==
  /\ session = "live" =>
       \A S \in PersonaKeys :
         ContextShape(build_chat_history(user_input, messages, S),
                      user_input, messages, S)
  /\ pc = "calling" =>
       ContextShape(req.messages, user_input, messages, order[idx])

C7_Witness ==
  /\ pc = "calling"
  /\ idx = 3
  /\ round_num = 2
  /\ Len(req.messages) = Len(messages) + 2
  /\ messages[Len(messages)].round_num = 2
  /\ \E i \in 1 .. Len(messages) : messages[i].content = Strip(AltReply)

\* the roles of context h of speaker S over transcript msgs
RolesOf(h, msgs, S) ==
  /\ Len(h) = Len(msgs) + 2
  /\ h[1].role = "user"
  /\ h[Len(h)].role = "user"
  /\ \A i \in 1 .. Len(msgs) :
       /\ h[i + 1].role \in {"assistant", "user"}
       /\ h[i + 1].role = "assistant" <=> msgs[i].persona_key = S

\* C8: in the context of speaker S an entry has role assistant exactly when
\* its message's speaker is S; all other entries, the topic entry and the
\* instruction entry have role user.
C8_ContextRoles ==
  /\ session = "live" =>
       \A S \in PersonaKeys :
         RolesOf(build_chat_history(user_input, messages, S), messages, S)
  /\ pc = "calling" => RolesOf(req.messages, messages, order[idx])

C8_Witness ==
  /\ pc = "calling"
  /\ round_num = 2
  /\ \E i \in 2 .. Len(req.messages) - 1 : req.messages[i].role = "assistant"
  /\ \E i \in 2 .. Len(req.messages) - 1 : req.messages[i].role = "user"

(***************************************************************************)
(* Properties of a run that stops early                                    *)
(***************************************************************************)
\* C9: once a backend call of a run has failed, the run is over: the failed
\* turn is not retried, the speaker is not passed over, and the run makes no
\* further backend call and produces no further message.
C9_FailureHalts ==
  [][ (err \in BackendErrors /\ runs' = runs) =>
        /\ pc = "failed"
        /\ pc' = "failed"
        /\ calls' = calls
        /\ produced' = produced
        /\ messages' = messages ]_vars

C9_Witness ==
  /\ pc = "failed"
  /\ err \in BackendErrors
  /\ round_num = 2
  /\ calls = Len(produced) + 1

Stopped == {"failed", "closed"}

\* C10: when a run stops early, by a backend failure or by an interrupt or
\* abandonment, the step that stops it leaves the transcript as it was, the
\* transcript ends with the messages the run emitted, in emission order,
\* and it stays so while the run is the session's last.
C10_StopKeepsTranscript ==
  [][ /\ (pc \notin Stopped /\ pc' \in Stopped) =>
           /\ messages' = messages
           /\ produced' = produced
           /\ IsSuffix(produced', messages')
      /\ (pc \in Stopped /\ runs' = runs) =>
           /\ messages' = messages
           /\ produced' = produced ]_vars

C10_Witness ==
  /\ pc = "closed"
  /\ idx = 2
  /\ round_num = 2
  /\ Len(produced) = 5
  /\ IsSuffix(produced, messages)

(***************************************************************************)
(* Properties of the failures the caller sees                              *)
(***************************************************************************)
\* the run has ended in the failure of the backend call of a turn
BackendFailed == pc = "failed" /\ calls = Len(produced) + 1

\* exception e tells which speaker and which round it comes from
Identifies(e, persona_key, r) ==
  /\ Mentions(e, persona_key) \/ Mentions(e, PERSONAS[persona_key].name)
  /\ Mentions(e, ToString(r))

\* C11 as stated: the failure of a turn's backend call reaches the caller as
\* an exception that identifies the speaker and the round of the turn.
C11_Original ==
  BackendFailed => Identifies(err, order[idx], round_num)

\* C11 as amended: the failure of a turn's backend call reaches the caller
\* as the exception the backend raised, unchanged; the engine adds neither
\* the speaker nor the round to it.
C11_FailureVerbatim ==
  BackendFailed =>
    /\ err \in BackendErrors
    /\ ~Identifies(err, order[idx], round_num)

C11_Witness ==
  /\ BackendFailed
  /\ round_num = 2
  /\ order[idx] = "skeptical"
  /\ err.type = "ConnectionError"

(***************************************************************************)
(* Properties of the construction of a session                             *)
(***************************************************************************)
\* the providers the configuration declares for the policy in force
DeclaredProviders == SetupProviders(cfgProvider, cfgMixed)

\* C12: when a declared backend kind is not a supported one, no session comes
\* to exist: the construction has failed with an error that names the
\* offending kind, with no message produced and no backend call made.
C12_UnknownKindFails ==
  /\ session = "live" =>
       \A i \in 1 .. Len(DeclaredProviders) :
         DeclaredProviders[i] \in {"ollama", "groq", "google", "huggingface"}
  /\ session = "config_error" =>
       /\ err.type = "ValueError"
       /\ \E i \in 1 .. Len(DeclaredProviders) :
            /\ DeclaredProviders[i] \notin {"ollama", "groq", "google", "huggingface"}
            /\ Mentions(err, DeclaredProviders[i])
       /\ clients = <<>>
       /\ messages = <<>>
       /\ runs = 0
       /\ calls = 0
       /\ pc = "idle"

C12_Witness ==
  /\ session = "config_error"
  /\ cfgProvider = "mixed"
  /\ nclients = 3
  /\ Mentions(err, "unknown-provider")

\* persona k of the speaking order has no entry in the per-persona table
Unresolvable(k) ==
  /\ cfgProvider = "mixed"
  /\ \A i \in 1 .. Len(cfgMixed) : cfgMixed[i].key # k

\* C13: when the per-persona table has no entry for a persona of the
\* speaking order, the failure has occurred at construction: no session
\* is live, no backend call has been made and no message appended when the
\* failure reaches the caller.
C13_Original ==
  (\E k \in PersonaKeys : Unresolvable(k) /\ err = Exc("KeyError", << k >>)) =>
    /\ session # "live"
    /\ calls = 0
    /\ messages = <<>>

\* C14: a topic that is empty after trimming is rejected on every input path
\* before a session is created and before any backend call: no live session
\* has such a topic, and a rejection has made no call.
C14_Original ==
  /\ session = "live" => Strip(user_input) # <<>>
  /\ session = "rejected" => (clients = <<>> /\ runs = 0 /\ calls = 0)

(***************************************************************************)
(* Properties of a second run on the same session                          *)
(***************************************************************************)
\* C15 as stated: a second run_discussion on a session works on a fresh
\* transcript: its contexts hold only its own messages and the transcript
\* holds only its own messages.
C15_Original ==
  runs >= 2 =>
    /\ pc = "calling" => Len(req.messages) = Len(produced) + 2
    /\ pc \in {"suspended", "done", "failed", "closed"} => messages = produced

\* C15 as amended: a second run_discussion on a session continues the
\* session's transcript: creating the generator leaves the transcript as
\* it is, the run's messages are appended after the earlier ones, and the
\* context of each of its turns holds every message of the transcript,
\* those of the earlier run included.
C15_RerunContinues ==
  [][ /\ runs' = runs + 1 => messages' = messages
      /\ IsSuffix(produced', messages')
      /\ pc' = "calling" =>
           ContextShape(req'.messages, user_input', messages', order'[idx']) ]_vars

C15_Witness ==
  /\ runs = 2
  /\ pc = "calling"
  /\ Len(produced) = 1
  /\ Len(messages) = 2
  /\ Len(req.messages) = 4
  /\ messages[1].round_num = 1
  /\ messages[2].round_num = 1

(***************************************************************************)
(* Properties of the order of calls and messages                           *)
(***************************************************************************)
\* C16: when the caller receives the n-th message of a run, the run has made
\* exactly n backend calls and the message is the last of the transcript; a
\* generator that was created and never advanced has made no call.
C16_LazyEmission ==
  /\ pc = "created" => calls = 0
  /\ pc = "suspended" =>
       /\ produced # <<>>
       /\ calls = Len(produced)
       /\ messages # <<>>
       /\ messages[Len(messages)] = produced[Len(produced)]

C16_Witness ==
  /\ pc = "suspended"
  /\ Len(produced) = 6
  /\ calls = 6
  /\ messages[Len(messages)].round_num = 2

\* C17: when every backend call returns and the caller keeps advancing, a run
\* of R >= 1 rounds reaches completion, and a completed run makes no further
\* call, appends no further message and takes no further step.
C17_Original ==
  /\ (pc = "created" /\ ResolveRounds(arg, cfgMaxRounds) >= 1) ~> (pc = "done")
  /\ [][ (pc = "done" /\ runs' = runs) =>
           (pc' = "done" /\ calls' = calls /\ messages' = messages) ]_vars

\* the backend calls of the run that have neither returned nor failed
InFlight == IF pc = "calling" THEN calls - Len(produced) ELSE 0

\* C18: at most one backend call is in flight, and a turn's call is issued
\* only when the messages of all earlier turns are in the transcript.
C18_Sequential ==
  /\ InFlight \in {0, 1}
  /\ calls \in {Len(produced), Len(produced) + 1}
  /\ pc = "calling" =>
       /\ calls = Len(produced) + 1
       /\ IsSuffix(produced, messages)
       /\ Len(req.messages) = Len(messages) + 2

C18_Witness ==
  /\ pc = "calling"
  /\ InFlight = 1
  /\ calls = 7
  /\ Len(produced) = 6

(***************************************************************************)
(* Properties of the post-processors                                       *)
(***************************************************************************)
\* C19: generate_summary and generate_takeaway each address one backend, the
\* first entry in insertion order of the session's mapping, whatever the
\* transcript holds and whoever spoke last.
C19_FirstBackend ==
  post.op # "none" =>
    /\ post.calls = 1
    /\ post.client = clients[1].client
    /\ post.temperature = 3

C19_Witness ==
  /\ post.op = "takeaway"
  /\ cfgProvider = "mixed"
  /\ Len(messages) >= 2
  /\ messages[Len(messages)].persona_key = "creative"
  /\ post.client = ClientOf(clients, "logical")
  /\ post.client # ClientOf(clients, "creative")

\* C20: the text a post-processor returns is the backend's text with the
\* surrounding whitespace trimmed.
C20_Original ==
  (post.op # "none" /\ post.err = NoError) => post.result = Strip(post.reply)

(***************************************************************************)
(* Properties of the transcript text                                       *)
(***************************************************************************)
\* the {speaker marker + name, content} pairs of a transcript
Pairs(msgs) ==
  [i \in 1 .. Len(msgs) |->
     [marker |-> msgs[i].emoji, name |-> msgs[i].persona_name,
      content |-> msgs[i].content]]

\* the transcripts a session holds after the first and the second turn
OpeningTranscripts ==
  {<< MakeMessage("logical", 1, t) >> : t \in TranscriptReplies}
  \cup {<< MakeMessage("logical", 1, t1), MakeMessage("creative", 1, t2) >> :
          t1 \in TranscriptReplies, t2 \in TranscriptReplies}

\* C21: re-parsing the text of get_transcript recovers exactly the pairs of
\* the transcript, in order; the text therefore determines the pairs, and no
\* transcript with other pairs has the same text.
C21_Original ==
  \A other \in OpeningTranscripts :
    get_transcript(user_input, other) = get_transcript(user_input, messages)
      => Pairs(other) = Pairs(messages)

(***************************************************************************)
(* Properties of the turns of a run                                        *)
(***************************************************************************)
\* the turns of round r of a run of R rounds over the order ord: every
\* position of ord but the synthesizer's when r < R and r = 1
TurnsOfRound(r, R, ord) ==
  LET all == [i \in 1 .. Len(ord) |-> [round_num |-> r, persona_key |-> ord[i]]]
      Taken(t) == ~(t.persona_key = "synthesizer" /\ r < R /\ r = 1)
  IN SelectSeq(all, Taken)

RECURSIVE TurnsFrom(_, _, _)
TurnsFrom(r, R, ord) ==
  IF r > R THEN <<>> ELSE TurnsOfRound(r, R, ord) \o TurnsFrom(r + 1, R, ord)

\* the round and the speaker of each message
TurnsOf(msgs) ==
  [i \in 1 .. Len(msgs) |->
     [round_num |-> msgs[i].round_num, persona_key |-> msgs[i].persona_key]]

DemoTranscript ==
  LET Thinkers(r) ==
        << [persona_name |-> "Logical Thinker",   round_num |-> r],
           [persona_name |-> "Creative Thinker",  round_num |-> r],
           [persona_name |-> "Skeptical Thinker", round_num |-> r],
           [persona_name |-> "Practical Thinker", round_num |-> r] >>
  IN Thinkers(1) \o Thinkers(2) \o Thinkers(3)
     \o << [persona_name |-> "Neutral Synthesizer", round_num |-> 3] >>

\* C23: with the default three rounds and the synthesizer enabled, a completed
\* run has the shape of the offline demo: the four thinkers in rounds 1 and 2,
\* the synthesizer in the last round only, 13 messages.
C23_Original ==
  (pc = "done" /\ arg = NoneVal /\ cfgMaxRounds = MAX_ROUNDS /\ WithSynth) =>
    /\ Len(produced) = 13
    /\ [i \in 1 .. Len(produced) |->
          [persona_name |-> produced[i].persona_name,
           round_num    |-> produced[i].round_num]] = DemoTranscript

(***************************************************************************)
(* Properties of the backend call of a turn                                *)
(***************************************************************************)
\* C24: the turn of speaker S makes one backend call, to the backend bound to
\* S in the session's mapping, with S's own instruction text, the context
\* assembled for S and S's temperature of the per-persona table, 0.5 when
\* the table has no entry for S.
C24_TurnCall ==
  pc = "calling" =>
    LET S == order[idx] IN
    /\ calls = Len(produced) + 1
    /\ \E i \in 1 .. Len(clients) :
         clients[i].key = S /\ clients[i].client = req.client
    /\ cfgProvider = "mixed" =>
         \E j \in 1 .. Len(cfgMixed) :
           cfgMixed[j].key = S /\ cfgMixed[j].model = req.client.model
    /\ \A k \in PersonaKeys :
         req.system_prompt = PERSONAS[k].system_prompt <=> k = S
    /\ ContextShape(req.messages, user_input, messages, S)
    /\ RolesOf(req.messages, messages, S)
    /\ S \in DOMAIN cfgTemps => req.temperature = cfgTemps[S]
    /\ S \notin DOMAIN cfgTemps => req.temperature = 5

C24_Witness ==
  /\ pc = "calling"
  /\ order[idx] = "creative"
  /\ "creative" \notin DOMAIN cfgTemps
  /\ req.temperature = 5
  /\ req.system_prompt = "prompt_creative"
  /\ Len(messages) = 1

\* the block of message m stands in text at position pos
BlockAt(text, pos, m) ==
  /\ pos + 6 + Len(m.content) <= Len(text)
  /\ SubSeq(text, pos, pos + 5) = <<"[", m.emoji, " ", m.persona_name, "]", "\n">>
  /\ SubSeq(text, pos + 6, pos + 5 + Len(m.content)) = m.content
  /\ text[pos + 6 + Len(m.content)] = "\n"

\* from position pos on, text holds the blocks of msgs[i], msgs[i+1], ...,
\* one line apart, and then the lines of tail
RECURSIVE BlocksFrom(_, _, _, _, _)
BlocksFrom(text, pos, msgs, i, tail) ==
  IF i > Len(msgs)
    THEN SubSeq(text, pos, Len(text)) = tail
    ELSE /\ BlockAt(text, pos, msgs[i])
         /\ IF i = Len(msgs)
              THEN BlocksFrom(text, pos + 7 + Len(msgs[i].content), msgs, i + 1, tail)
              ELSE /\ text[pos + 7 + Len(msgs[i].content)] = "\n"
                   /\ BlocksFrom(text, pos + 8 + Len(msgs[i].content), msgs, i + 1, tail)

\* text is the request of a post-processor over topic and msgs
SerializesTranscript(text, topic, msgs, ask) ==
  LET head == <<"Discussion transcript:", "\n", "\n", "[User]", "\n">> \o topic \o <<"\n">>
  IN /\ Len(text) >= Len(head)
     /\ SubSeq(text, 1, Len(head)) = head
     /\ IF msgs = <<>>
          THEN SubSeq(text, Len(head) + 1, Len(text)) = <<"\n", "\n", ask>>
          ELSE /\ text[Len(head) + 1] = "\n"
               /\ BlocksFrom(text, Len(head) + 2, msgs, 1, <<"\n", "\n", ask>>)

\* C25: an invocation of generate_summary or generate_takeaway makes exactly
\* one backend call, whose input is the topic followed by every message of
\* the transcript, tagged with marker and name, in transcript order; a
\* failure of the call reaches the caller as it is, without a second call.
C25_OneSerializedCall ==
  post.op # "none" =>
    /\ post.calls = 1
    /\ Len(post.messages) = 1
    /\ post.messages[1].role = "user"
    /\ SerializesTranscript(post.messages[1].content, user_input, messages,
                            IF post.op = "summary"
                              THEN "Please summarize this discussion."
                              ELSE "Provide a final balanced takeaway.")
    /\ post.err # NoError => (post.err \in BackendErrors /\ post.result = <<>>)

C25_Witness ==
  /\ post.op = "summary"
  /\ post.err.type = "ConnectionError"
  /\ post.calls = 1
  /\ Len(messages) = 6
  /\ messages[6].persona_key = "logical"

(***************************************************************************)
(* Properties of the backend mapping                                       *)
(***************************************************************************)
\* C26: under the uniform policy, construction leaves a mapping whose keys
\* are exactly the speaking order of the synthesizer flag as it is at
\* construction, every key bound to one and the same backend instance, made
\* by a single call to create_client; no later step changes the mapping.
C26_UniformMapping ==
  [][ /\ (session # "live" /\ session' = "live" /\ cfgProvider # "mixed") =>
           /\ [i \in 1 .. Len(clients') |-> clients'[i].key] =
                (IF cfgSynth THEN RESPONSE_ORDER_WITH_SYNTH ELSE RESPONSE_ORDER)
           /\ \A i, j \in 1 .. Len(clients') :
                clients'[i].client = clients'[j].client
           /\ nclients' = 1
      /\ session = "live" => (clients' = clients /\ nclients' = nclients) ]_vars

C26_Witness ==
  /\ session = "live"
  /\ cfgProvider = "ollama"
  /\ Len(clients) = 4
  /\ nclients = 1
  /\ cfgSynth
  /\ clients[1].client = clients[4].client

\* C27: at every turn of every run the selected speaker has a backend bound
\* in the session's mapping, however construction, assignments of the
\* synthesizer flag and run starts interleave; stated here for the uniform
\* policy, whose bindings are fixed from the flag at construction.
C27_Original ==
  (cfgProvider # "mixed" /\ session = "live"
     /\ pc \in {"calling", "suspended", "failed"}) =>
    \E i \in 1 .. Len(clients) : clients[i].key = order[idx]

(***************************************************************************)
(* Properties of the round count                                           *)
(***************************************************************************)
\* the body of the generator has started
Started == pc \in {"calling", "suspended", "done", "failed"}

\* the rounds in which the run has produced a message
RoundsOf(msgs) == {msgs[i].round_num : i \in 1 .. Len(msgs)}

\* C28: run_discussion called with None or 0 runs config.MAX_ROUNDS rounds, as
\* the configuration stands when the run starts; called with a negative count
\* it completes at once with no backend call and no message; and --rounds 0
\* leaves config.MAX_ROUNDS as it was.
C28_RoundCount ==
  /\ [](/\ (Started /\ arg \in {NoneVal, << 0 >>}) => rounds = cfgMaxRounds
        /\ (pc = "done" /\ arg \in {NoneVal, << 0 >>} /\ cfgMaxRounds >= 1) =>
             RoundsOf(produced) = 1 .. cfgMaxRounds
        /\ (runs >= 1 /\ arg # NoneVal /\ arg[1] < 0) =>
             /\ pc \in {"created", "done", "closed"}
             /\ calls = 0
             /\ produced = <<>>)
  /\ [][ /\ (pc = "created" /\ pc' # "closed" /\ arg # NoneVal /\ arg[1] < 0) =>
              (pc' = "done" /\ messages' = messages)
         /\ (\E n \in BOOLEAN : MainOverride(0, n)) => cfgMaxRounds' = cfgMaxRounds
       ]_vars

C28_Witness ==
  /\ pc = "done"
  /\ arg = << 0 >>
  /\ cfgMaxRounds = MAX_ROUNDS
  /\ rounds = MAX_ROUNDS
  /\ produced[Len(produced)].round_num = MAX_ROUNDS

(***************************************************************************)
(* Properties of the read-only operations                                  *)
(***************************************************************************)
\* C29: generate_summary and generate_takeaway (with the get_transcript they
\* call), whether the backend answers or fails, and the _build_chat_history
\* of a turn leave the topic, the transcript and the backend mapping as they
\* were.
C29_ReadOnly ==
  [][ /\ post' # NoPost =>
           (user_input' = user_input /\ messages' = messages /\ clients' = clients)
      /\ (pc # "calling" /\ pc' = "calling") =>
           (user_input' = user_input /\ messages' = messages /\ clients' = clients)
    ]_vars

C29_Witness ==
  /\ post.op = "takeaway"
  /\ post.err # NoError
  /\ pc = "suspended"
  /\ Len(messages) = 3
  /\ Len(clients) = 5

==========================================================================
